---- MODULE Spec2Model ----
(***************************************************************************)
(* opensway: the asynchronous task engine (api/routers, workers) and the   *)
(* VRAM-budgeted model pool (workers/model_loader.py).                     *)
(*                                                                         *)
(* Eight specifications share the definitions below:                       *)
(*   SpecPool  one ModelPool object driven by a sequence of get calls;     *)
(*   Spec      the task store under submit, cancel and executor threads,   *)
(*             for the image and video routes;                             *)
(*   SpecAudio the same store for the audio routes;                        *)
(*   SpecStatus the status route over stored rows;                         *)
(*   SpecOwner the status and cancel routes over stored rows, by either    *)
(*             key;                                                        *)
(*   SpecExecFair the store of Spec with failing database writes, each     *)
(*             executor thread scheduled fairly;                           *)
(*   SpecConc  executor threads running get_pool / ModelPool.get / the     *)
(*             pipeline call concurrently, as _enqueue starts them.        *)
(*   SpecConcFair the threads of SpecConc asking for one model, each       *)
(*             scheduled fairly.                                           *)
(* Sizes are in whole GB (the code uses floats holding such values).       *)
(***************************************************************************)
EXTENDS Integers, Sequences, FiniteSets, TLC

VARIABLES
    available_vram,   \* ModelPool.available_vram (model_loader.py:53)
    registry,         \* ModelPool.registry: model name -> vram_gb (model_loader.py:51)
    pools,            \* the ModelPool objects constructed so far
    calls,            \* SpecPool: the get calls made, in order, each with its outcome
    before,           \* SpecPool: the pool as it was when the last get began
    load_calls,       \* SpecPool: per model, the number of self._load(name) calls
    miss_gets,        \* SpecPool: per model, the gets made while it was not resident
    credit_balance,   \* ApiKey.credit_balance of each key (db/models.py:22)
    tasks,            \* the tasks table: tasks[id] is the row of task id
    pc,               \* pc[id]: where the executor thread of task id stands
    cancelling,       \* ids for which a cancel_task handler has read PENDING
                      \* and has not committed yet
    posts,            \* posts[id]: the webhook payloads posted for task id
    exc,              \* exc[id]: str(e) of the exception the executor of task
                      \* id has caught in its except clause, "None" if none
    response,         \* the last HTTP response sent
    _pool,            \* the module global _pool: 0 for None, else an index of pools
    threads           \* SpecConc: the executor threads started by _enqueue, each
                      \* with its place in lines 54-71 of generate_image and
                      \* its local variables

poolVars == <<available_vram, registry, pools>>
histVars == <<calls, before, load_calls, miss_gets>>
taskVars == <<credit_balance, tasks, pc, cancelling, posts, exc, response>>
concVars == <<_pool, threads>>
vars == <<poolVars, histVars, taskVars, concVars>>

\* what the steps on the task store leave alone, and the steps on the pool
nonTaskVars == <<poolVars, histVars, concVars>>
nonPoolVars == <<taskVars, concVars>>
nonConcVars == <<histVars, taskVars>>

----------------------------------------------------------------------------
(* Bounds *)

MaxCalls == 4

MaxTasks == 1

MaxThreads == 2

----------------------------------------------------------------------------
(* workers/model_loader.py *)

\* model names with an entry in ModelPool._load's dispatch table
Loaders == {"flux_schnell", "flux_dev", "kokoro", "demucs", "ltx_video", "hunyuan_video"}

\* the names the pool is asked for here: three with a loader, one (an image
\* model of MODEL_TASK_MAP) without
PoolModels == {"flux_schnell", "flux_dev", "ltx_video", "sd35_large"}

DefaultVram == 4

Max(a, b) == IF a >= b THEN a ELSE b

\* registries (config/models.yaml is deployment data): sd35_large has no
\* vram_gb entry and takes the default
Registries ==
    { [m \in {"flux_schnell", "flux_dev", "ltx_video"} |->
          CASE m = "flux_schnell" -> a [] m = "flux_dev" -> b [] OTHER -> c]
      : a \in {4, 6}, b \in {6, 12}, c \in {4, 8} }

Budgets == {8, 10}

\* ModelPool.__init__
ModelPool == [pool |-> <<>>, used_vram |-> 0]

_model_vram(model_name) ==
    IF model_name \in DOMAIN registry THEN registry[model_name] ELSE DefaultVram

Names(p) == {p.pool[i].name : i \in 1..Len(p.pool)}

Entry(p, model_name) ==
    CHOOSE i \in 1..Len(p.pool) : p.pool[i].name = model_name

\* OrderedDict.popitem(last=True): the newest entry instead of the oldest
popitem_last(p) ==
    [p |-> [p EXCEPT !.pool = SubSeq(@, 1, Len(@) - 1)],
     name |-> p.pool[Len(p.pool)].name]

\* OrderedDict.popitem(last=False): removes and yields the oldest entry
popitem(p) ==
    [p |-> [p EXCEPT !.pool = Tail(@)], name |-> Head(p.pool).name]

\* an eviction that forgets to subtract the footprint
release_nothing(p, name) == p

\* lines 67-68: used_vram -= vram; used_vram = max(0.0, used_vram)
release(p, name) == [p EXCEPT !.used_vram = Max(0, @ - _model_vram(name))]

\* a loop that empties the pool on every miss
must_evict_all(p, needed_gb) == p.pool # <<>>

\* the loop condition of _evict_lru
must_evict(p, needed_gb) ==
    p.used_vram + needed_gb > available_vram /\ p.pool # <<>>

RECURSIVE _evict_lru(_, _)
_evict_lru(p, needed_gb) ==
    IF must_evict(p, needed_gb)
    THEN LET e == popitem(p) IN _evict_lru(release(e.p, e.name), needed_gb)
    ELSE p

\* the names _evict_lru hands to _unload, in the order of the calls
RECURSIVE _unload(_, _)
_unload(p, needed_gb) ==
    IF must_evict(p, needed_gb)
    THEN LET e == popitem(p)
         IN  <<e.name>> \o _unload(release(e.p, e.name), needed_gb)
    ELSE <<>>

\* a hit that leaves the entry where it is
move_to_end_skipped(p, model_name) == p

\* OrderedDict.move_to_end(name)
move_to_end(p, model_name) ==
    LET i == Entry(p, model_name)
    IN  [p EXCEPT !.pool =
            Append(SubSeq(@, 1, i - 1) \o SubSeq(@, i + 1, Len(@)), @[i])]

\* an insertion that puts a new key first
setitem_first(p, model_name, model) ==
    [p EXCEPT !.pool = <<[name |-> model_name, handle |-> model]>> \o @]

\* self._pool[model_name] = model: a new key goes last, an existing key keeps
\* its place and takes the new value
setitem(p, model_name, model) ==
    IF model_name \in Names(p)
    THEN [p EXCEPT !.pool[Entry(p, model_name)].handle = model]
    ELSE [p EXCEPT !.pool = Append(@, [name |-> model_name, handle |-> model])]

\* ModelPool._load: the dispatch table, then the loader
_load(model_name, loader_ok) ==
    IF model_name \notin Loaders THEN "ValueError"
    ELSE IF ~loader_ok THEN "LoaderError"
    ELSE "loaded"

\* lines 86-93 of ModelPool.get, run to completion by one caller.  `model` is
\* the object the loader would return, `loader_ok` whether the loader returns
\* or raises.  The result carries the pool afterwards, the outcome, the names
\* unloaded and the number of self._load calls made.
get_miss(p, model_name, model, loader_ok) ==
    LET needed == _model_vram(model_name)
        q == _evict_lru(p, needed)
        kind == _load(model_name, loader_ok)
    IN  [p |-> IF kind = "loaded"
               THEN [setitem(q, model_name, model) EXCEPT !.used_vram = @ + needed]
               ELSE q,
         kind |-> kind,
         handle |-> IF kind = "loaded" THEN model ELSE <<>>,
         unloaded |-> _unload(p, needed),
         loads |-> 1]

\* get without its residency test (lines 81-84 left out)
get_reload(p, model_name, model, loader_ok) ==
    get_miss(p, model_name, model, loader_ok)

\* ModelPool.get
get(p, model_name, model, loader_ok) ==
    IF model_name \in Names(p)
    THEN LET q == move_to_end(p, model_name)
         IN  [p |-> q, kind |-> "hit",
              handle |-> q.pool[Entry(q, model_name)].handle,
              unloaded |-> <<>>, loads |-> 0]
    ELSE get_miss(p, model_name, model, loader_ok)

----------------------------------------------------------------------------
(* SpecPool: one pool, sequential get calls *)

InitPool ==
    /\ available_vram \in Budgets
    /\ registry \in Registries
    /\ pools = <<ModelPool>>
    /\ calls = <<>>
    /\ before = ModelPool
    /\ load_calls = [m \in PoolModels |-> 0]
    /\ miss_gets = [m \in PoolModels |-> 0]
    /\ credit_balance = [k \in {} |-> 0]
    /\ tasks = <<>>
    /\ pc = <<>>
    /\ cancelling = {}
    /\ posts = <<>>
    /\ exc = <<>>
    /\ response = [op |-> "none"]
    /\ _pool = 1
    /\ threads = <<>>

PoolGet(model_name) ==
    /\ Len(calls) < MaxCalls
    /\ \E loader_ok \in BOOLEAN :
          LET model == <<model_name, load_calls[model_name] + 1>>
              r == get(pools[1], model_name, model, loader_ok)
          IN  /\ pools' = <<r.p>>
              /\ calls' = Append(calls, [name |-> model_name, kind |-> r.kind,
                                         handle |-> r.handle,
                                         unloaded |-> r.unloaded,
                                         loads |-> r.loads])
              /\ load_calls' = [load_calls EXCEPT ![model_name] = @ + r.loads]
    /\ before' = pools[1]
    /\ miss_gets' = [miss_gets EXCEPT ![model_name] =
                        IF model_name \in Names(pools[1]) THEN @ ELSE @ + 1]
    /\ UNCHANGED <<available_vram, registry, nonPoolVars>>

NextPool == \E model_name \in PoolModels : PoolGet(model_name)

SpecPool == InitPool /\ [][NextPool]_vars

----------------------------------------------------------------------------
(* api/auth.py, api/routers/generate.py, api/routers/tasks.py *)

Keys == {"key_a", "key_b"}

\* key_a can pay for text_to_image and not for text_to_video; key_b holds the
\* column's default balance
Balance == [k \in Keys |-> IF k = "key_a" THEN 2 ELSE 10000]

Endpoints == {"text_to_image", "text_to_video"}

\* the model names a request may carry: an image model with a loader, an
\* image model without one, and a name MODEL_TASK_MAP does not know
Models == {"flux_schnell", "sd35_large", "gen4_turbo"}

\* the audio routes followed in SpecAudio, and the model names sent to them:
\* the default model of each route's request schema
AudioEndpoints == {"voice_dubbing", "speech_to_speech"}

AudioModels == {"dubbing_pipeline", "rvc"}

\* require_credits(n) of the endpoint's route
Cost(endpoint) ==
    CASE endpoint = "text_to_image" -> 2
      [] endpoint = "text_to_video" -> 5
      [] endpoint = "speech_to_speech" -> 2
      [] endpoint = "voice_dubbing" -> 20

MODEL_TASK_MAP ==
    [m \in {"ltx_video", "hunyuan_video", "cogvideox", "animatediff",
            "flux_schnell", "flux_dev", "sd35_large",
            "kokoro", "f5_tts", "rvc", "audiocraft_audiogen", "demucs",
            "dubbing_pipeline", "live_portrait"} |->
        CASE m \in {"ltx_video", "hunyuan_video", "cogvideox", "animatediff"}
                -> "workers.video_worker.generate_video"
          [] m \in {"flux_schnell", "flux_dev", "sd35_large"}
                -> "workers.image_worker.generate_image"
          [] m \in {"kokoro", "f5_tts"} -> "workers.audio_worker.text_to_speech"
          [] m = "rvc" -> "workers.audio_worker.speech_to_speech"
          [] m = "audiocraft_audiogen" -> "workers.audio_worker.sound_effect"
          [] m = "demucs" -> "workers.audio_worker.voice_isolation"
          [] m = "dubbing_pipeline" -> "workers.audio_worker.voice_dubbing"
          [] m = "live_portrait"
                -> "workers.audio_worker.character_performance"]

\* the task functions the worker modules define
WorkerFunctions ==
    {"workers.video_worker.generate_video",
     "workers.image_worker.generate_image",
     "workers.audio_worker.text_to_speech",
     "workers.audio_worker.voice_isolation",
     "workers.audio_worker.sound_effect",
     "workers.audio_worker.voice_dubbing",
     "workers.audio_worker.character_performance",
     "workers.audio_worker.video_to_video"}

\* _enqueue lines 62-68: the lookup raises HTTPException(422), or getattr
\* raises AttributeError, or the task function is found
resolve(model) ==
    IF model \notin DOMAIN MODEL_TASK_MAP THEN "HTTPException"
    ELSE IF MODEL_TASK_MAP[model] \notin WorkerFunctions THEN "AttributeError"
    ELSE MODEL_TASK_MAP[model]

\* a thread whose target has already run to its end when start() returns
thread_run_inline == "done"

\* _enqueue lines 71-76: where the new thread stands when t.start() returns
thread_start == "start"

\* a checker that lets every key through
require_credits_off(min_credits, api_key) == FALSE

\* require_credits.checker: TRUE when the dependency raises 402
require_credits(min_credits, api_key) == credit_balance[api_key] < min_credits

\* _create_task: the row as committed
_create_task(api_key, model, endpoint, webhook_url) ==
    [status |-> "PENDING", model |-> model, endpoint |-> endpoint,
     webhook_url |-> webhook_url, api_key_id |-> api_key,
     created_at |-> 1, started_at |-> 0, ended_at |-> 0,
     progress |-> 0, output_urls |-> "None", error |-> "None"]

\* a timestamp column holds 0 for NULL, else the number of times it was written
Now(t) == t + 1

\* POST /v1/<endpoint>: require_credits, _create_task, _enqueue, response.
\* An exception leaving _enqueue is answered 422 (HTTPException) or 500 (any
\* other), after the row was committed and with no thread started.
Submit(api_key, endpoint, model, webhook_url) ==
    IF require_credits(Cost(endpoint), api_key)
    THEN /\ response' = [op |-> "submit", api_key |-> api_key,
                         endpoint |-> endpoint, status_code |-> 402, id |-> 0]
         /\ UNCHANGED <<nonTaskVars, credit_balance, tasks, pc, cancelling, posts, exc>>
    ELSE /\ Len(tasks) < MaxTasks
         /\ tasks' = Append(tasks, _create_task(api_key, model, endpoint, webhook_url))
         /\ posts' = Append(posts, <<>>)
         /\ exc' = Append(exc, "None")
         /\ pc' = Append(pc, IF resolve(model) \in {"HTTPException", "AttributeError"}
                             THEN "none" ELSE thread_start)
         /\ response' = [op |-> "submit", api_key |-> api_key,
                         endpoint |-> endpoint,
                         status_code |->
                             CASE resolve(model) = "HTTPException" -> 422
                               [] resolve(model) = "AttributeError" -> 500
                               [] OTHER -> 200,
                         id |-> Len(tasks) + 1]
         /\ UNCHANGED <<nonTaskVars, credit_balance, cancelling>>

\* a query by id alone
OwnedByAnyone(api_key, id) == id \in 1..Len(tasks)

\* the query of get_task and cancel_task: the row with this id owned by the key
Owned(api_key, id) ==
    id \in 1..Len(tasks) /\ tasks[id].api_key_id = api_key

\* a cancel that terminalizes a RUNNING or terminal task as well
CancelReadRevoke(api_key, id) ==
    /\ id \notin cancelling
    /\ IF ~Owned(api_key, id)
       THEN /\ response' = [op |-> "cancel", status_code |-> 404, id |-> id]
            /\ UNCHANGED <<cancelling, tasks>>
       ELSE IF tasks[id].status \in {"PENDING", "THROTTLED"}
       THEN /\ cancelling' = cancelling \cup {id}
            /\ UNCHANGED <<response, tasks>>
       ELSE /\ response' = [op |-> "cancel", status_code |-> 204, id |-> id]
            /\ tasks' = [tasks EXCEPT ![id].status = "FAILED",
                                      ![id].error = "Cancelled by user"]
            /\ UNCHANGED cancelling
    /\ UNCHANGED <<nonTaskVars, credit_balance, pc, posts, exc>>

\* DELETE /v1/tasks/{id}, up to the status test: 404, or 204 with nothing
\* to do, or a handler that goes on to write
CancelRead(api_key, id) ==
    /\ id \notin cancelling
    /\ IF ~Owned(api_key, id)
       THEN /\ response' = [op |-> "cancel", status_code |-> 404, id |-> id]
            /\ UNCHANGED cancelling
       ELSE IF tasks[id].status \in {"PENDING", "THROTTLED"}
       THEN /\ cancelling' = cancelling \cup {id}
            /\ UNCHANGED response
       ELSE /\ response' = [op |-> "cancel", status_code |-> 204, id |-> id]
            /\ UNCHANGED cancelling
    /\ UNCHANGED <<nonTaskVars, credit_balance, tasks, pc, posts, exc>>

\* a cancel that answers without writing
CancelNoWrite(id) ==
    /\ id \in cancelling
    /\ cancelling' = cancelling \ {id}
    /\ response' = [op |-> "cancel", status_code |-> 204, id |-> id]
    /\ UNCHANGED <<nonTaskVars, credit_balance, tasks, pc, posts, exc>>

\* a cancel that stamps ended_at with its write
CancelCommitEnded(id) ==
    /\ id \in cancelling
    /\ tasks' = [tasks EXCEPT ![id].status = "FAILED",
                              ![id].error = "Cancelled by user",
                              ![id].ended_at = Now(@)]
    /\ cancelling' = cancelling \ {id}
    /\ response' = [op |-> "cancel", status_code |-> 204, id |-> id]
    /\ UNCHANGED <<nonTaskVars, credit_balance, pc, posts, exc>>

\* the row with this id taken out of a table column
Without(col, id) == SubSeq(col, 1, id - 1) \o SubSeq(col, id + 1, Len(col))

\* a cancel that deletes the row, as its HTTP method suggests
CancelCommitDelete(id) ==
    /\ id \in cancelling
    /\ tasks' = Without(tasks, id)
    /\ pc' = Without(pc, id)
    /\ posts' = Without(posts, id)
    /\ exc' = Without(exc, id)
    /\ cancelling' = cancelling \ {id}
    /\ response' = [op |-> "cancel", status_code |-> 204, id |-> id]
    /\ UNCHANGED <<nonTaskVars, credit_balance>>

\* cancel_task lines 41-45: the write, the commit and the response
CancelCommit(id) ==
    /\ id \in cancelling
    /\ tasks' = [tasks EXCEPT ![id].status = "FAILED",
                              ![id].error = "Cancelled by user"]
    /\ cancelling' = cancelling \ {id}
    /\ response' = [op |-> "cancel", status_code |-> 204, id |-> id]
    /\ UNCHANGED <<nonTaskVars, credit_balance, pc, posts, exc>>

----------------------------------------------------------------------------
(* workers/image_worker.py: generate_image, one thread per task.           *)
(* generate_video (workers/video_worker.py) makes the same writes in the   *)
(* same order.  Here the pool call only returns or raises; the pool's own  *)
(* state is followed in SpecPool and SpecConc.  The first and the last     *)
(* steps are those of workers/audio_worker.py too: every task function     *)
(* starts with the same four lines, _save_and_finish is lines 76-87 of     *)
(* generate_image, and the except clauses are the same call.               *)

\* a start that commits the status before started_at and progress
ExecStartStatusOnly(id) ==
    /\ pc[id] = "start"
    /\ tasks' = [tasks EXCEPT ![id].status = "RUNNING"]
    /\ pc' = [pc EXCEPT ![id] =
                 IF resolve(tasks[id].model) = "workers.audio_worker.voice_dubbing"
                 THEN "dub" ELSE "get"]
    /\ UNCHANGED <<nonTaskVars, credit_balance, cancelling, posts, exc, response>>

\* lines 27-36: the row is fetched and marked RUNNING, whatever it held
ExecStart(id) ==
    /\ pc[id] = "start"
    /\ tasks' = [tasks EXCEPT ![id].status = "RUNNING",
                              ![id].started_at = Now(@),
                              ![id].progress = 10]
    /\ pc' = [pc EXCEPT ![id] =
                 IF resolve(tasks[id].model) = "workers.audio_worker.voice_dubbing"
                 THEN "dub" ELSE "get"]
    /\ UNCHANGED <<nonTaskVars, credit_balance, cancelling, posts, exc, response>>

\* lines 38-56: the input is parsed and the pipeline fetched from the pool
ExecGet(id) ==
    /\ pc[id] = "get"
    /\ \E loader_ok \in BOOLEAN :
          LET r == _load(tasks[id].model, loader_ok)
          IN  IF r = "loaded"
              THEN pc' = [pc EXCEPT ![id] = "progress30"] /\ UNCHANGED exc
              ELSE pc' = [pc EXCEPT ![id] = "except"]
                   /\ exc' = [exc EXCEPT ![id] = r]
    /\ UNCHANGED <<nonTaskVars, credit_balance, tasks, cancelling, posts, response>>

\* lines 58-59
ExecProgress30(id) ==
    /\ pc[id] = "progress30"
    /\ tasks' = [tasks EXCEPT ![id].progress = 30]
    /\ pc' = [pc EXCEPT ![id] = "pipe"]
    /\ UNCHANGED <<nonTaskVars, credit_balance, cancelling, posts, exc, response>>

\* str(e) of what a backend may raise: an exception with a message, and one
\* raised without any
BackendErrors == {"BackendError", ""}

\* lines 61-71: the pipeline call returns or raises
ExecPipe(id) ==
    /\ pc[id] = "pipe"
    /\ \E raised \in BOOLEAN :
          IF raised
          THEN /\ pc' = [pc EXCEPT ![id] = "except"]
               /\ \E e \in BackendErrors : exc' = [exc EXCEPT ![id] = e]
          ELSE pc' = [pc EXCEPT ![id] = "progress80"] /\ UNCHANGED exc
    /\ UNCHANGED <<nonTaskVars, credit_balance, tasks, cancelling, posts, response>>

\* lines 73-74
ExecProgress80(id) ==
    /\ pc[id] = "progress80"
    /\ tasks' = [tasks EXCEPT ![id].progress = 80]
    /\ pc' = [pc EXCEPT ![id] = "save"]
    /\ UNCHANGED <<nonTaskVars, credit_balance, cancelling, posts, exc, response>>

\* a save whose failure is noted and passed over
ExecSaveIgnored(id) ==
    /\ pc[id] = "save"
    /\ \E raised \in BOOLEAN :
          /\ pc' = [pc EXCEPT ![id] = "succeed"]
          /\ exc' = [exc EXCEPT ![id] = IF raised THEN "StorageError" ELSE @]
    /\ UNCHANGED <<nonTaskVars, credit_balance, tasks, cancelling, posts, response>>

\* lines 76-80: save_bytes returns the url or raises
ExecSave(id) ==
    /\ pc[id] = "save"
    /\ \E raised \in BOOLEAN :
          IF raised
          THEN pc' = [pc EXCEPT ![id] = "except"]
               /\ exc' = [exc EXCEPT ![id] = "StorageError"]
          ELSE pc' = [pc EXCEPT ![id] = "succeed"] /\ UNCHANGED exc
    /\ UNCHANGED <<nonTaskVars, credit_balance, tasks, cancelling, posts, response>>

\* a success write that charges the owner the cost of the route
ExecSucceedDebit(id) ==
    /\ pc[id] = "succeed"
    /\ tasks' = [tasks EXCEPT ![id].status = "SUCCEEDED",
                              ![id].output_urls = "url",
                              ![id].ended_at = Now(@),
                              ![id].progress = 100]
    /\ credit_balance' = [credit_balance EXCEPT ![tasks[id].api_key_id] =
                              @ - Cost(tasks[id].endpoint)]
    /\ pc' = [pc EXCEPT ![id] = "webhook"]
    /\ UNCHANGED <<nonTaskVars, cancelling, posts, exc, response>>

\* lines 82-87
ExecSucceed(id) ==
    /\ pc[id] = "succeed"
    /\ tasks' = [tasks EXCEPT ![id].status = "SUCCEEDED",
                              ![id].output_urls = "url",
                              ![id].ended_at = Now(@),
                              ![id].progress = 100]
    /\ pc' = [pc EXCEPT ![id] = "webhook"]
    /\ UNCHANGED <<nonTaskVars, credit_balance, cancelling, posts, exc, response>>

\* _fire_webhook: the row is read again after the commit; a failed post is
\* logged and nothing else
_fire_webhook(id) ==
    IF ~tasks[id].webhook_url
    THEN UNCHANGED posts
    ELSE \E delivered \in BOOLEAN :
            posts' = [posts EXCEPT ![id] =
                         Append(@, [status |-> tasks[id].status,
                                    output |-> tasks[id].output_urls,
                                    delivered |-> delivered])]

\* a webhook step that posts again after a failed delivery
ExecWebhookRetry(id) ==
    /\ pc[id] = "webhook"
    /\ _fire_webhook(id)
    /\ pc' = [pc EXCEPT ![id] =
                 IF posts'[id] # <<>> /\ ~posts'[id][Len(posts'[id])].delivered
                 THEN "webhook" ELSE "done"]
    /\ UNCHANGED <<nonTaskVars, credit_balance, tasks, cancelling, exc, response>>

\* a webhook step whose failed delivery is raised into the except clause
ExecWebhookRaising(id) ==
    /\ pc[id] = "webhook"
    /\ _fire_webhook(id)
    /\ IF posts'[id] # <<>> /\ ~posts'[id][Len(posts'[id])].delivered
       THEN /\ pc' = [pc EXCEPT ![id] = "except"]
            /\ exc' = [exc EXCEPT ![id] = "NotificationError"]
       ELSE /\ pc' = [pc EXCEPT ![id] = "done"]
            /\ UNCHANGED exc
    /\ UNCHANGED <<nonTaskVars, credit_balance, tasks, cancelling, response>>

\* line 89
ExecWebhook(id) ==
    /\ pc[id] = "webhook"
    /\ _fire_webhook(id)
    /\ pc' = [pc EXCEPT ![id] = "done"]
    /\ UNCHANGED <<nonTaskVars, credit_balance, tasks, cancelling, exc, response>>

\* _update_task(task_id, status="FAILED", error=str(e), ended_at=utcnow())
_update_task_failed(id) ==
    [tasks EXCEPT ![id].status = "FAILED",
                  ![id].error = exc[id],
                  ![id].ended_at = Now(@)]

\* a task function without the except clause: the exception ends the thread
ExecRaise(id) ==
    /\ pc[id] = "except"
    /\ pc' = [pc EXCEPT ![id] = "done"]
    /\ UNCHANGED <<nonTaskVars, credit_balance, tasks, cancelling, posts, exc, response>>

\* lines 91-96: the except branch
ExecExcept(id) ==
    /\ pc[id] = "except"
    /\ tasks' = _update_task_failed(id)
    /\ pc' = [pc EXCEPT ![id] = "done"]
    /\ UNCHANGED <<nonTaskVars, credit_balance, cancelling, posts, exc, response>>

----------------------------------------------------------------------------
(* workers/audio_worker.py: voice_dubbing, between its start (ExecStart)   *)
(* and _save_and_finish (ExecSave, ExecSucceed).  The backend is opaque:   *)
(* it calls the progress callback any number of times with the values of   *)
(* SinkValues in any order, then returns or raises.                        *)

\* percentages the backends pass to progress_callback
SinkValues == {10, 25, 60, 95}

\* lines 200-214 up to the call: the arguments are read from the input;
\* inp["audioUri"] raises KeyError on the input of another route
DubCall(id) ==
    /\ pc[id] = "dub"
    /\ IF tasks[id].endpoint = "voice_dubbing"
       THEN pc' = [pc EXCEPT ![id] = "backend"] /\ UNCHANGED exc
       ELSE pc' = [pc EXCEPT ![id] = "except"]
            /\ exc' = [exc EXCEPT ![id] = "KeyError"]
    /\ UNCHANGED <<nonTaskVars, credit_balance, tasks, cancelling, posts, response>>

\* lines 203-205: the value task.progress holds after progress(pct)
progress(last, pct) == pct

\* the backend calls progress_callback(pct)
Sink(id, pct) ==
    /\ pc[id] = "backend"
    /\ tasks' = [tasks EXCEPT ![id].progress = progress(@, pct)]
    /\ UNCHANGED <<nonTaskVars, credit_balance, pc, cancelling, posts, exc, response>>

\* lines 207-214: dub_video returns the bytes or raises
DubReturn(id) ==
    /\ pc[id] = "backend"
    /\ \E raised \in BOOLEAN :
          IF raised
          THEN /\ pc' = [pc EXCEPT ![id] = "except"]
               /\ \E e \in BackendErrors : exc' = [exc EXCEPT ![id] = e]
          ELSE pc' = [pc EXCEPT ![id] = "save"] /\ UNCHANGED exc
    /\ UNCHANGED <<nonTaskVars, credit_balance, tasks, cancelling, posts, response>>

----------------------------------------------------------------------------
(* Spec: the task store under submit, cancel and the executor threads *)

Init ==
    /\ credit_balance = Balance
    /\ tasks = <<>>
    /\ pc = <<>>
    /\ cancelling = {}
    /\ posts = <<>>
    /\ exc = <<>>
    /\ response = [op |-> "none"]
    /\ available_vram = 8
    /\ registry = [m \in {} |-> 0]
    /\ pools = <<>>
    /\ calls = <<>>
    /\ before = ModelPool
    /\ load_calls = [m \in PoolModels |-> 0]
    /\ miss_gets = [m \in PoolModels |-> 0]
    /\ _pool = 0
    /\ threads = <<>>

Next ==
    \/ \E api_key \in Keys, endpoint \in Endpoints, model \in Models,
          webhook_url \in BOOLEAN :
          Submit(api_key, endpoint, model, webhook_url)
    \/ \E api_key \in Keys, id \in 1..Len(tasks) : CancelRead(api_key, id)
    \/ \E id \in 1..Len(tasks) : CancelCommit(id)
    \/ \E id \in 1..Len(tasks) : ExecStart(id)
    \/ \E id \in 1..Len(tasks) : ExecGet(id)
    \/ \E id \in 1..Len(tasks) : ExecProgress30(id)
    \/ \E id \in 1..Len(tasks) : ExecPipe(id)
    \/ \E id \in 1..Len(tasks) : ExecProgress80(id)
    \/ \E id \in 1..Len(tasks) : ExecSave(id)
    \/ \E id \in 1..Len(tasks) : ExecSucceed(id)
    \/ \E id \in 1..Len(tasks) : ExecWebhook(id)
    \/ \E id \in 1..Len(tasks) : ExecExcept(id)

Spec == Init /\ [][Next]_vars

----------------------------------------------------------------------------
(* SpecAudio: the same store under the audio routes *)

NextAudio ==
    \/ \E api_key \in Keys, endpoint \in AudioEndpoints, model \in AudioModels,
          webhook_url \in BOOLEAN :
          Submit(api_key, endpoint, model, webhook_url)
    \/ \E api_key \in Keys, id \in 1..Len(tasks) : CancelRead(api_key, id)
    \/ \E id \in 1..Len(tasks) : CancelCommit(id)
    \/ \E id \in 1..Len(tasks) : ExecStart(id)
    \/ \E id \in 1..Len(tasks) : DubCall(id)
    \/ \E id \in 1..Len(tasks), pct \in SinkValues : Sink(id, pct)
    \/ \E id \in 1..Len(tasks) : DubReturn(id)
    \/ \E id \in 1..Len(tasks) : ExecSave(id)
    \/ \E id \in 1..Len(tasks) : ExecSucceed(id)
    \/ \E id \in 1..Len(tasks) : ExecWebhook(id)
    \/ \E id \in 1..Len(tasks) : ExecExcept(id)

SpecAudio == Init /\ [][NextAudio]_vars

----------------------------------------------------------------------------
(* SpecExecFair: the store of Spec with a database that may fail, and every *)
(* executor thread scheduled fairly.  A commit of the task function that    *)
(* raises sends it to its except clause like any other exception; the write *)
(* of the except clause is made outside any try.                            *)

\* where the task function commits: lines 36, 59, 74 and 87
Commits == {"start", "progress30", "progress80", "succeed"}

\* db.commit() raises: nothing is stored and the exception is caught at line 91
ExecCommitRaise(id) ==
    /\ pc[id] \in Commits
    /\ pc' = [pc EXCEPT ![id] = "except"]
    /\ exc' = [exc EXCEPT ![id] = "OperationalError"]
    /\ UNCHANGED <<nonTaskVars, credit_balance, tasks, cancelling, posts, response>>

\* lines 93-96 when _update_task raises: nothing is stored, the exception
\* leaves the task function and the thread ends
ExecExceptRaise(id) ==
    /\ pc[id] = "except"
    /\ pc' = [pc EXCEPT ![id] = "done"]
    /\ UNCHANGED <<nonTaskVars, credit_balance, tasks, cancelling, posts, exc, response>>

\* the next statement of the thread of task id
ExecStep(id) ==
    /\ id \in 1..Len(tasks)
    /\ \/ ExecStart(id) \/ ExecGet(id) \/ ExecProgress30(id) \/ ExecPipe(id)
       \/ ExecProgress80(id) \/ ExecSave(id) \/ ExecSucceed(id)
       \/ ExecWebhook(id) \/ ExecExcept(id)
       \/ ExecCommitRaise(id) \/ ExecExceptRaise(id)

NextExec ==
    \/ \E api_key \in Keys, endpoint \in Endpoints, model \in Models,
          webhook_url \in BOOLEAN :
          Submit(api_key, endpoint, model, webhook_url)
    \/ \E api_key \in Keys, id \in 1..Len(tasks) : CancelRead(api_key, id)
    \/ \E id \in 1..Len(tasks) : CancelCommit(id)
    \/ \E id \in 1..Len(tasks) : ExecStep(id)

SpecExecFair ==
    /\ Init
    /\ [][NextExec]_vars
    /\ \A id \in 1..MaxTasks : WF_vars(ExecStep(id))

----------------------------------------------------------------------------
(* SpecStatus: GET /v1/tasks/{id} over stored rows of every shape.  The    *)
(* handler only reads, so the rows are drawn at the start and stay.        *)

\* a snapshot that copies the stored output whatever the status
from_orm_task_raw(task, id) ==
    [id |-> id, status |-> task.status,
     createdAt |-> task.created_at, startedAt |-> task.started_at,
     endedAt |-> task.ended_at, progress |-> <<task.progress, 100>>,
     output |-> task.output_urls, error |-> task.error]

\* TaskResponse.from_orm_task.  output_url and output_urls are written
\* together by every worker and are one field here; an empty list is "[]".
\* progress is the stored percentage over 100.
from_orm_task(task, id) ==
    [id |-> id, status |-> task.status,
     createdAt |-> task.created_at, startedAt |-> task.started_at,
     endedAt |-> task.ended_at, progress |-> <<task.progress, 100>>,
     output |-> IF task.status = "SUCCEEDED"
                THEN (IF task.output_urls # "None" THEN task.output_urls ELSE "[]")
                ELSE "None",
     error |-> task.error]

\* get_task: 404 unless the row exists and belongs to the key
GetTask(api_key, id) ==
    /\ response' = IF Owned(api_key, id)
                   THEN [op |-> "get", status_code |-> 200, id |-> id,
                         body |-> from_orm_task(tasks[id], id)]
                   ELSE [op |-> "get", status_code |-> 404, id |-> id]
    /\ UNCHANGED <<nonTaskVars, credit_balance, tasks, pc, cancelling, posts, exc>>

\* rows as the tasks table can hold them, consistent or not
Rows ==
    [status : {"PENDING", "RUNNING", "SUCCEEDED", "FAILED"},
     model : {"flux_schnell"}, endpoint : {"text_to_image"},
     webhook_url : {FALSE}, api_key_id : Keys,
     created_at : {1}, started_at : {1}, ended_at : {0},
     progress : {80, 100}, output_urls : {"None", "url"},
     error : {"None", "Cancelled by user"}]

InitStatus ==
    /\ tasks \in [1..MaxTasks -> Rows]
    /\ pc = [id \in 1..MaxTasks |-> "done"]
    /\ posts = [id \in 1..MaxTasks |-> <<>>]
    /\ exc = [id \in 1..MaxTasks |-> "None"]
    /\ credit_balance = Balance
    /\ cancelling = {}
    /\ response = [op |-> "none"]
    /\ available_vram = 8
    /\ registry = [m \in {} |-> 0]
    /\ pools = <<>>
    /\ calls = <<>>
    /\ before = ModelPool
    /\ load_calls = [m \in PoolModels |-> 0]
    /\ miss_gets = [m \in PoolModels |-> 0]
    /\ _pool = 0
    /\ threads = <<>>

NextStatus ==
    \E api_key \in Keys, id \in 1..(Len(tasks) + 1) : GetTask(api_key, id)

SpecStatus == InitStatus /\ [][NextStatus]_vars

----------------------------------------------------------------------------
(* SpecOwner: GET and DELETE /v1/tasks/{id} by either key over stored rows, *)
(* the id of no row included.                                              *)

NextOwner ==
    \/ \E api_key \in Keys, id \in 1..(Len(tasks) + 1) : GetTask(api_key, id)
    \/ \E api_key \in Keys, id \in 1..(Len(tasks) + 1) : CancelRead(api_key, id)
    \/ \E id \in 1..Len(tasks) : CancelCommit(id)

SpecOwner == InitStatus /\ [][NextOwner]_vars

----------------------------------------------------------------------------
(* SpecConc: the threads _enqueue starts, each running lines 54-71 of      *)
(* generate_image (74-98 of generate_video): get_pool(), pool.get(name),   *)
(* pipe(...).  No lock is taken anywhere in these lines, so the threads    *)
(* interleave between statements: each step below is one statement (the    *)
(* loop test of _evict_lru together with its popitem, and an augmented     *)
(* assignment to used_vram, are each taken as one step).  A pipeline       *)
(* object is named by its model and the thread that loaded it.  The writes *)
(* to the task row made by the same threads are followed in Spec.          *)

ConcModels == {"flux_schnell", "flux_dev", "ltx_video"}

\* the positions inside ModelPool.get
InGet == {"get", "move_to_end", "getitem", "evict", "unload", "load",
          "insert", "add"}

Thread(model_name) ==
    [pc |-> "get_pool", model_name |-> model_name, pool |-> 0,
     name |-> "None", model |-> <<>>, pipe |-> <<>>]

\* _enqueue lines 71-76: threading.Thread(...).start()
_enqueue(model_name) ==
    /\ Len(threads) < MaxThreads
    /\ threads' = Append(threads, Thread(model_name))
    /\ UNCHANGED <<poolVars, _pool, nonConcVars>>

\* get_pool line 179: if _pool is None
GetPoolTest(t) ==
    /\ threads[t].pc = "get_pool"
    /\ threads' = [threads EXCEPT ![t].pc =
                      IF _pool = 0 THEN "construct" ELSE "return_pool"]
    /\ UNCHANGED <<poolVars, _pool, nonConcVars>>

\* get_pool line 180: _pool = ModelPool()
GetPoolConstruct(t) ==
    /\ threads[t].pc = "construct"
    /\ pools' = Append(pools, ModelPool)
    /\ _pool' = Len(pools) + 1
    /\ threads' = [threads EXCEPT ![t].pc = "return_pool"]
    /\ UNCHANGED <<available_vram, registry, nonConcVars>>

\* get_pool line 181: return _pool
GetPoolReturn(t) ==
    /\ threads[t].pc = "return_pool"
    /\ threads' = [threads EXCEPT ![t].pool = _pool, ![t].pc = "get"]
    /\ UNCHANGED <<poolVars, _pool, nonConcVars>>

\* ModelPool.get line 81, and line 86 on a miss
GetTest(t) ==
    /\ threads[t].pc = "get"
    /\ threads' = [threads EXCEPT ![t].pc =
                      IF threads[t].model_name \in Names(pools[threads[t].pool])
                      THEN "move_to_end" ELSE "evict"]
    /\ UNCHANGED <<poolVars, _pool, nonConcVars>>

\* line 83; KeyError when the entry has been evicted since line 81
GetMoveToEnd(t) ==
    /\ threads[t].pc = "move_to_end"
    /\ LET i == threads[t].pool
           m == threads[t].model_name
       IN  IF m \in Names(pools[i])
           THEN /\ pools' = [pools EXCEPT ![i] = move_to_end(@, m)]
                /\ threads' = [threads EXCEPT ![t].pc = "getitem"]
           ELSE /\ threads' = [threads EXCEPT ![t].pc = "raised"]
                /\ UNCHANGED pools
    /\ UNCHANGED <<available_vram, registry, _pool, nonConcVars>>

\* line 84; KeyError when the entry has been evicted since line 83
GetItem(t) ==
    /\ threads[t].pc = "getitem"
    /\ LET p == pools[threads[t].pool]
           m == threads[t].model_name
       IN  threads' = [threads EXCEPT
              ![t].pipe = IF m \in Names(p) THEN p.pool[Entry(p, m)].handle ELSE <<>>,
              ![t].pc = IF m \in Names(p) THEN "call" ELSE "raised"]
    /\ UNCHANGED <<poolVars, _pool, nonConcVars>>

\* _evict_lru lines 63-64: the loop test and popitem
EvictPop(t) ==
    /\ threads[t].pc = "evict"
    /\ LET i == threads[t].pool
           needed == _model_vram(threads[t].model_name)
       IN  IF must_evict(pools[i], needed)
           THEN LET e == popitem(pools[i])
                IN  /\ pools' = [pools EXCEPT ![i] = e.p]
                    /\ threads' = [threads EXCEPT ![t].name = e.name,
                                                  ![t].pc = "unload"]
           ELSE /\ threads' = [threads EXCEPT ![t].pc = "load"]
                /\ UNCHANGED pools
    /\ UNCHANGED <<available_vram, registry, _pool, nonConcVars>>

\* _evict_lru lines 65-68: _unload, then used_vram is reduced and clamped
EvictRelease(t) ==
    /\ threads[t].pc = "unload"
    /\ pools' = [pools EXCEPT ![threads[t].pool] = release(@, threads[t].name)]
    /\ threads' = [threads EXCEPT ![t].name = "None", ![t].pc = "evict"]
    /\ UNCHANGED <<available_vram, registry, _pool, nonConcVars>>

\* line 90: self._load(model_name) returns a new object or raises
GetLoad(t) ==
    /\ threads[t].pc = "load"
    /\ \E loader_ok \in BOOLEAN :
          IF _load(threads[t].model_name, loader_ok) = "loaded"
          THEN threads' = [threads EXCEPT
                              ![t].model = <<threads[t].model_name, t>>,
                              ![t].pc = "insert"]
          ELSE threads' = [threads EXCEPT ![t].pc = "raised"]
    /\ UNCHANGED <<poolVars, _pool, nonConcVars>>

\* line 91
GetInsert(t) ==
    /\ threads[t].pc = "insert"
    /\ pools' = [pools EXCEPT ![threads[t].pool] =
                    setitem(@, threads[t].model_name, threads[t].model)]
    /\ threads' = [threads EXCEPT ![t].pc = "add"]
    /\ UNCHANGED <<available_vram, registry, _pool, nonConcVars>>

\* lines 92-93
GetAdd(t) ==
    /\ threads[t].pc = "add"
    /\ pools' = [pools EXCEPT ![threads[t].pool].used_vram =
                    @ + _model_vram(threads[t].model_name)]
    /\ threads' = [threads EXCEPT ![t].pipe = threads[t].model, ![t].pc = "call"]
    /\ UNCHANGED <<available_vram, registry, _pool, nonConcVars>>

\* a call that waits while any other thread's invocation is in flight
PipeCallOneAtATime(t) ==
    /\ threads[t].pc = "call"
    /\ \A u \in 1..Len(threads) : threads[u].pc # "in_call"
    /\ threads' = [threads EXCEPT ![t].pc = "in_call"]
    /\ UNCHANGED <<poolVars, _pool, nonConcVars>>

\* a call that waits for a hold on the model which an invocation gives up
\* only by returning: one that raised keeps it
PipeCallHeldAfterRaise(t) ==
    /\ threads[t].pc = "call"
    /\ \A u \in 1..Len(threads) :
          (u # t /\ threads[u].model_name = threads[t].model_name)
              => ~(threads[u].pc = "in_call"
                   \/ (threads[u].pc = "raised" /\ threads[u].pipe # <<>>))
    /\ threads' = [threads EXCEPT ![t].pc = "in_call"]
    /\ UNCHANGED <<poolVars, _pool, nonConcVars>>

\* generate_image lines 63-70: the pipeline call begins
PipeCall(t) ==
    /\ threads[t].pc = "call"
    /\ threads' = [threads EXCEPT ![t].pc = "in_call"]
    /\ UNCHANGED <<poolVars, _pool, nonConcVars>>

\* the pipeline call returns or raises
PipeReturn(t) ==
    /\ threads[t].pc = "in_call"
    /\ \E raised \in BOOLEAN :
          threads' = [threads EXCEPT ![t].pc = IF raised THEN "raised" ELSE "done"]
    /\ UNCHANGED <<poolVars, _pool, nonConcVars>>

InitConc ==
    /\ available_vram = 10
    /\ registry = [m \in ConcModels |-> IF m = "ltx_video" THEN 4 ELSE 6]
    /\ pools = <<>>
    /\ _pool = 0
    /\ threads = <<>>
    /\ calls = <<>>
    /\ before = ModelPool
    /\ load_calls = [m \in PoolModels |-> 0]
    /\ miss_gets = [m \in PoolModels |-> 0]
    /\ credit_balance = [k \in {} |-> 0]
    /\ tasks = <<>>
    /\ pc = <<>>
    /\ cancelling = {}
    /\ posts = <<>>
    /\ exc = <<>>
    /\ response = [op |-> "none"]

NextConc ==
    \/ \E model_name \in ConcModels : _enqueue(model_name)
    \/ \E t \in 1..Len(threads) : GetPoolTest(t)
    \/ \E t \in 1..Len(threads) : GetPoolConstruct(t)
    \/ \E t \in 1..Len(threads) : GetPoolReturn(t)
    \/ \E t \in 1..Len(threads) : GetTest(t)
    \/ \E t \in 1..Len(threads) : GetMoveToEnd(t)
    \/ \E t \in 1..Len(threads) : GetItem(t)
    \/ \E t \in 1..Len(threads) : EvictPop(t)
    \/ \E t \in 1..Len(threads) : EvictRelease(t)
    \/ \E t \in 1..Len(threads) : GetLoad(t)
    \/ \E t \in 1..Len(threads) : GetInsert(t)
    \/ \E t \in 1..Len(threads) : GetAdd(t)
    \/ \E t \in 1..Len(threads) : PipeCall(t)
    \/ \E t \in 1..Len(threads) : PipeReturn(t)

SpecConc == InitConc /\ [][NextConc]_vars

\* the steps of thread t
ThreadStep(t) ==
    /\ t \in 1..Len(threads)
    /\ \/ GetPoolTest(t) \/ GetPoolConstruct(t) \/ GetPoolReturn(t)
       \/ GetTest(t) \/ GetMoveToEnd(t) \/ GetItem(t)
       \/ EvictPop(t) \/ EvictRelease(t)
       \/ GetLoad(t) \/ GetInsert(t) \/ GetAdd(t)
       \/ PipeCall(t) \/ PipeReturn(t)

\* every thread asks for the same model; two copies of it do not fit the
\* budget together
FairModels == {"flux_schnell"}

NextConcFair ==
    \/ \E model_name \in FairModels : _enqueue(model_name)
    \/ \E t \in 1..Len(threads) : ThreadStep(t)

\* the threads under a scheduler that lets every started thread run: a
\* thread that can take a step eventually takes one
SpecConcFair ==
    /\ InitConc
    /\ [][NextConcFair]_vars
    /\ \A t \in 1..MaxThreads : WF_vars(ThreadStep(t))

----------------------------------------------------------------------------
(* Claims on the task store, checked under Spec *)

Terminal == {"SUCCEEDED", "FAILED"}

Edges == { <<"PENDING", "RUNNING">>, <<"PENDING", "FAILED">>,
           <<"RUNNING", "SUCCEEDED">>, <<"RUNNING", "FAILED">> }

\* C1: under every interleaving of submit, cancel and executor steps, each
\* change of a task's stored status is one of the four edges PENDING->RUNNING,
\* PENDING->FAILED, RUNNING->SUCCEEDED, RUNNING->FAILED.
C1_StatusFollowsEdges ==
    [][\A id \in 1..Len(tasks) :
          tasks'[id].status # tasks[id].status
              => <<tasks[id].status, tasks'[id].status>> \in Edges]_vars

\* C2: first terminal write wins.  Once a task's stored status is SUCCEEDED
\* or FAILED, no later step changes its status, output or error.
C2_FirstTerminalWriteWins ==
    [][\A id \in 1..Len(tasks) :
          tasks[id].status \in Terminal
              => /\ tasks'[id].status = tasks[id].status
                 /\ tasks'[id].output_urls = tasks[id].output_urls
                 /\ tasks'[id].error = tasks[id].error]_vars

\* C10: a submit with a credit balance below the endpoint's cost is answered
\* 402 and creates no task: the tasks table is unchanged, no executor thread
\* is started, and no stored task was ever admitted without the credits.
C10_InsufficientCreditsRejected ==
    /\ [][(response' # response /\ response'.op = "submit"
             /\ credit_balance[response'.api_key] < Cost(response'.endpoint))
          => /\ response'.status_code = 402
             /\ tasks' = tasks
             /\ pc' = pc]_vars
    /\ [](\A id \in 1..Len(tasks) :
             credit_balance[tasks[id].api_key_id] >= Cost(tasks[id].endpoint))

\* C10 happens: a submit was answered 402 while the table held a task
C10_Witness ==
    /\ response.op = "submit"
    /\ response.status_code = 402
    /\ credit_balance[response.api_key] < Cost(response.endpoint)
    /\ Len(tasks) = 1 /\ Len(pc) = 1

----------------------------------------------------------------------------
(* Claims on the pool, checked under SpecPool *)

Last(s) == s[Len(s)]

Returned(c) == c.kind \in {"hit", "loaded"}

RECURSIVE Footprint(_)
Footprint(entries) ==
    IF entries = <<>> THEN 0
    ELSE _model_vram(Head(entries).name) + Footprint(Tail(entries))

PoolNames(p) == [i \in 1..Len(p.pool) |-> p.pool[i].name]

\* C3: after any sequence of get calls, for any registry and budget, the
\* footprints of the resident models sum to at most available_vram.
C3_FootprintWithinBudget ==
    \A i \in 1..Len(pools) : Footprint(pools[i].pool) <= available_vram

\* C4: a get for a model whose footprint alone exceeds the budget fails with
\* InsufficientBudget: the loader is not called, the model is not inserted
\* and used_vram is not increased.
C4_OversizeGetFails ==
    (calls # <<>> /\ _model_vram(Last(calls).name) > available_vram)
        => /\ Last(calls).kind = "InsufficientBudget"
           /\ Last(calls).loads = 0
           /\ Last(calls).name \notin Names(pools[1])
           /\ pools[1].used_vram <= before.used_vram

\* the index of the last get before call n that returned model m (0: none)
LastGot(m, n) ==
    LET S == {i \in 1..(n - 1) : calls[i].name = m /\ Returned(calls[i])}
    IN  IF S = {} THEN 0 ELSE CHOOSE i \in S : \A j \in S : j <= i

ScenarioRegistry ==
    [m \in {"flux_schnell", "flux_dev", "ltx_video"} |->
        IF m = "ltx_video" THEN 4 ELSE 6]

ScenarioRun ==
    /\ available_vram = 10
    /\ registry = ScenarioRegistry
    /\ Len(calls) = 4
    /\ [i \in 1..4 |-> calls[i].name] =
           <<"flux_schnell", "flux_dev", "ltx_video", "flux_schnell">>
    /\ \A i \in 1..4 : Returned(calls[i])

\* C5: eviction is strict LRU by get-time recency.  On a miss the entries
\* unloaded are the least recently got ones, oldest first, every survivor was
\* got after every evicted entry, and the survivors keep their order; on the
\* scenario budget 10, A = 6, B = 6, C = 4, get A, B, C, A the pool ends as
\* {C, A} with used_vram = 10.
C5_StrictLRU ==
    /\ calls # <<>> /\ Last(calls).kind # "hit" =>
          LET n == Len(calls)
              gone == Last(calls).unloaded
              k == Len(gone)
              old == PoolNames(before)
              now == PoolNames(pools[1])
              kept == IF Last(calls).kind = "loaded"
                      THEN SubSeq(now, 1, Len(now) - 1) ELSE now
          IN  /\ k <= Len(old)
              /\ gone = SubSeq(old, 1, k)
              /\ kept = SubSeq(old, k + 1, Len(old))
              /\ \A i \in 1..(k - 1) : LastGot(gone[i], n) < LastGot(gone[i + 1], n)
              /\ \A i \in 1..k : \A j \in 1..Len(kept) :
                    /\ LastGot(gone[i], n) > 0
                    /\ LastGot(gone[i], n) < LastGot(kept[j], n)
    /\ ScenarioRun =>
          /\ PoolNames(pools[1]) = <<"ltx_video", "flux_schnell">>
          /\ pools[1].used_vram = 10
          /\ [i \in 1..4 |-> calls[i].unloaded] =
                 <<(<<>>), <<"flux_schnell">>, (<<>>), <<"flux_dev">> >>

\* C5 happens: the scenario has run to its end, its last get evicting B
C5_Witness ==
    /\ ScenarioRun
    /\ Last(calls).unloaded = <<"flux_dev">>

\* a miss that had to evict two entries to make room
C5_TwoEvicted ==
    calls # <<>> /\ Len(Last(calls).unloaded) = 2 /\ Len(pools[1].pool) = 1

\* C6: self._load runs only on a miss.  Per model the number of _load calls
\* equals the number of gets made while it was not resident, and a get that
\* directly follows a get of the same model that returned makes no _load
\* call and returns the same object.
C6_LoadOnlyOnMiss ==
    /\ \A m \in PoolModels : load_calls[m] = miss_gets[m]
    /\ \A i \in 1..(Len(calls) - 1) :
          (calls[i].name = calls[i + 1].name /\ Returned(calls[i]))
              => /\ calls[i + 1].loads = 0
                 /\ calls[i + 1].kind = "hit"
                 /\ calls[i + 1].handle = calls[i].handle

\* C6 happens: a load directly followed by a hit on the same model
C6_Witness ==
    /\ Len(calls) >= 2
    /\ calls[Len(calls) - 1].name = Last(calls).name
    /\ calls[Len(calls) - 1].kind = "loaded"
    /\ Last(calls).kind = "hit"
    /\ load_calls[Last(calls).name] = 1

----------------------------------------------------------------------------
(* Claims on concurrent executors, checked under SpecConc *)

InFlight(t) == threads[t].pc = "in_call"

Resident(model) ==
    \E i \in 1..Len(pools) : \E j \in 1..Len(pools[i].pool) :
        pools[i].pool[j].handle = model

\* C7: at most one invocation is in flight per resident model instance: the
\* windows in which two threads use the same pipeline object never overlap.
C7_OneInvocationPerModel ==
    \A t1, t2 \in 1..Len(threads) :
        (t1 # t2 /\ InFlight(t1) /\ InFlight(t2))
            => threads[t1].pipe # threads[t2].pipe

\* C8: pool bookkeeping is atomic per get.  Whenever no thread is inside
\* get, used_vram equals the sum of the footprints of the resident models
\* (each resident model counted once).
C8_UsedCountsEachResidentOnce ==
    (\A t \in 1..Len(threads) : threads[t].pc \notin InGet)
        => \A i \in 1..Len(pools) :
              pools[i].used_vram = Footprint(pools[i].pool)

\* C9: pinning.  A resident model whose pipeline is in use by an in-flight
\* call is not removed from the pool by a step of another thread's get for a
\* different model.
C9_InFlightModelNotEvicted ==
    [][\A t, u \in 1..Len(threads) :
          ( /\ InFlight(t)
            /\ Resident(threads[t].pipe)
            /\ threads[u].model_name # threads[t].model_name
            /\ threads'[u] # threads[u] )
              => Resident(threads[t].pipe)']_vars

----------------------------------------------------------------------------
(* Claims on submission and dispatch, checked under Spec and SpecAudio *)

\* the model name has no entry in MODEL_TASK_MAP
UnknownModel(model) == resolve(model) = "HTTPException"

\* the model is run by a worker that fetches it from the pool, and the pool
\* has no loader for it
LoaderNotFound(model) ==
    /\ resolve(model) \in {"workers.image_worker.generate_image",
                           "workers.video_worker.generate_video"}
    /\ model \notin Loaders

\* C11: a submit whose model has no entry in MODEL_TASK_MAP is answered
\* with the unknown-model error (422), and a stored task whose model is
\* unknown or has no loader is never picked up by an executor: it is never
\* started and its status is PENDING, or FAILED by a cancel.
C11_UnknownModelNeverStarts ==
    /\ (response.op = "submit" /\ response.id # 0
           /\ UnknownModel(tasks[response.id].model))
          => response.status_code = 422
    /\ \A id \in 1..Len(tasks) :
          (UnknownModel(tasks[id].model) \/ LoaderNotFound(tasks[id].model))
              => /\ tasks[id].started_at = 0
                 /\ tasks[id].status \in {"PENDING", "FAILED"}
                 /\ tasks[id].status = "FAILED"
                       => tasks[id].error = "Cancelled by user"

\* C12: every task stored by submit is handed to an executor: no stored
\* task is left without an executor thread started for it.
C12_EveryStoredTaskDispatched ==
    \A id \in 1..Len(tasks) : pc[id] # "none"

\* C13: submit does not wait for the executor.  The step that answers 200
\* with the task's id leaves the new task PENDING with its thread at its
\* first statement, and changes no other task and no other thread.
C13_SubmitNeverBlocks ==
    [][(response' # response /\ response'.op = "submit"
          /\ response'.status_code = 200)
       => /\ tasks'[response'.id].status = "PENDING"
          /\ tasks'[response'.id].started_at = 0
          /\ pc'[response'.id] = "start"
          /\ \A id \in 1..Len(tasks) :
                tasks'[id] = tasks[id] /\ pc'[id] = pc[id]]_vars

\* C13 happens: the id was returned and the task is still PENDING, its
\* executor not yet begun
C13_Witness ==
    /\ response.op = "submit"
    /\ response.status_code = 200
    /\ tasks[response.id].status = "PENDING"
    /\ pc[response.id] = "start"

----------------------------------------------------------------------------
(* Claims on the fields of a stored task, checked under Spec and SpecAudio *)

\* C14: in every state of the tasks table, a task's output is set if and
\* only if its status is SUCCEEDED.
C14_OutputIffSucceeded ==
    \A id \in 1..Len(tasks) :
        (tasks[id].output_urls # "None") <=> (tasks[id].status = "SUCCEEDED")

\* C15: in every state of the tasks table, a task's error is set if and
\* only if its status is FAILED.
C15_ErrorIffFailed ==
    \A id \in 1..Len(tasks) :
        (tasks[id].error # "None") <=> (tasks[id].status = "FAILED")

\* C16: in every state of the tasks table, a task's ended_at is set if and
\* only if its status is SUCCEEDED or FAILED.
C16_EndedAtIffTerminal ==
    \A id \in 1..Len(tasks) :
        (tasks[id].ended_at # 0) <=> (tasks[id].status \in Terminal)

\* C17: the stored progress of a task never decreases: no step, and so no
\* value passed to the progress callback, lowers it.
C17_ProgressNeverDecreases ==
    [][\A id \in 1..Len(tasks) :
          tasks'[id].progress >= tasks[id].progress]_vars

\* C18: a task in a terminal status has progress 100 if and only if that
\* status is SUCCEEDED.
C18_Progress100IffSucceeded ==
    \A id \in 1..Len(tasks) :
        tasks[id].status \in Terminal
            => ((tasks[id].progress = 100) <=> (tasks[id].status = "SUCCEEDED"))

----------------------------------------------------------------------------
(* Claims on failures inside the executor *)

\* C19: when anything raises after the task became RUNNING, the executor
\* catches it: the thread goes through its except clause to its end, and
\* there the task is FAILED with error and ended_at set and no output.
C19_BackendFailureCaught ==
    \A id \in 1..Len(tasks) :
        exc[id] # "None"
            => /\ pc[id] \in {"except", "done"}
               /\ tasks[id].started_at # 0
               /\ pc[id] = "done"
                     => /\ tasks[id].status = "FAILED"
                        /\ tasks[id].error # "None"
                        /\ tasks[id].ended_at # 0
                        /\ tasks[id].output_urls = "None"

\* C19 happens: the backend raised after reporting progress 60
C19_Witness ==
    \E id \in 1..Len(tasks) :
        /\ exc[id] = "BackendError"
        /\ pc[id] = "done"
        /\ tasks[id].progress = 60
        /\ tasks[id].error = "BackendError"

\* C20: when the storage write fails after the backend returned, the task
\* is never SUCCEEDED and never has an output, and it ends FAILED with
\* error and ended_at set.
C20_StorageFailureFails ==
    \A id \in 1..Len(tasks) :
        exc[id] = "StorageError"
            => /\ tasks[id].status # "SUCCEEDED"
               /\ tasks[id].output_urls = "None"
               /\ pc[id] \notin {"succeed", "webhook"}
               /\ pc[id] = "done"
                     => /\ tasks[id].status = "FAILED"
                        /\ tasks[id].error # "None"
                        /\ tasks[id].ended_at # 0

\* C20 happens: save_bytes raised after the pipeline returned, and the
\* executor has ended
C20_Witness ==
    \E id \in 1..Len(tasks) :
        /\ exc[id] = "StorageError"
        /\ pc[id] = "done"
        /\ tasks[id].progress = 80
        /\ tasks[id].error = "StorageError"

----------------------------------------------------------------------------
(* Claims on the webhook, checked under Spec *)

\* C21: a task with a webhook configured that has reached a terminal status
\* gets a delivery attempt: once its executor has ended with the task
\* SUCCEEDED or FAILED, a post has been made for it.
C21_WebhookAfterTerminal ==
    \A id \in 1..Len(tasks) :
        (pc[id] = "done" /\ tasks[id].webhook_url
           /\ tasks[id].status \in Terminal)
            => posts[id] # <<>>

\* C22: at most one delivery is attempted per task, and only after a
\* terminal status was stored: the post carries a terminal status and the
\* stored task is terminal, with ended_at set, from then on.
C22_WebhookAtMostOnce ==
    \A id \in 1..Len(tasks) :
        /\ Len(posts[id]) <= 1
        /\ posts[id] # <<>>
              => /\ posts[id][1].status \in Terminal
                 /\ tasks[id].status \in Terminal
                 /\ tasks[id].ended_at # 0

\* C22 happens: the one delivery failed and the executor has ended
C22_Witness ==
    \E id \in 1..Len(tasks) :
        /\ pc[id] = "done"
        /\ Len(posts[id]) = 1
        /\ ~posts[id][1].delivered
        /\ posts[id][1].status = "SUCCEEDED"

\* the last delivery attempted for the task failed
DeliveryFailed(id) ==
    posts[id] # <<>> /\ ~posts[id][Len(posts[id])].delivered

\* C23: a failed delivery changes nothing of the task.  The step that makes
\* the failed attempt leaves the row as it was, and no later step of the
\* task's executor changes the row.
C23_FailedDeliveryKeepsOutcome ==
    [][\A id \in 1..Len(tasks) :
          /\ (posts'[id] # posts[id]) => tasks'[id] = tasks[id]
          /\ (DeliveryFailed(id) /\ pc'[id] # pc[id])
                => /\ tasks'[id] = tasks[id]
                   /\ pc'[id] = "done"]_vars

\* C23 happens: the delivery failed and the task is SUCCEEDED with its output
C23_Witness ==
    \E id \in 1..Len(tasks) :
        /\ DeliveryFailed(id)
        /\ pc[id] = "done"
        /\ tasks[id].status = "SUCCEEDED"
        /\ tasks[id].output_urls = "url"
        /\ tasks[id].error = "None"

----------------------------------------------------------------------------
(* Claims on cancel and on the start of a run *)

\* C24: a cancel that found the task PENDING has, when it answers, stored
\* status FAILED with an error message.
C24_CancelPendingFails ==
    [][\A id \in 1..Len(tasks) :
          (id \in cancelling /\ id \notin cancelling')
              => /\ response' = [op |-> "cancel", status_code |-> 204, id |-> id]
                 /\ tasks'[id].status = "FAILED"
                 /\ tasks'[id].error = "Cancelled by user"]_vars

\* C24 happens: the cancel has answered before the executor began
C24_Witness ==
    /\ response.op = "cancel"
    /\ response.status_code = 204
    /\ tasks[response.id].status = "FAILED"
    /\ tasks[response.id].error = "Cancelled by user"
    /\ tasks[response.id].started_at = 0
    /\ pc[response.id] = "start"

\* C28: a task whose stored status is RUNNING has started_at set and
\* progress at least 10.
C28_RunningHasStartAndMarker ==
    \A id \in 1..Len(tasks) :
        tasks[id].status = "RUNNING"
            => /\ tasks[id].started_at # 0
               /\ tasks[id].progress >= 10

\* C28 happens: the start has been committed and nothing of the backend
\* has run
C28_Witness ==
    \E id \in 1..Len(tasks) :
        /\ tasks[id].status = "RUNNING"
        /\ pc[id] = "dub"
        /\ tasks[id].progress = 10
        /\ tasks[id].started_at # 0

\* C29: created_at, started_at and ended_at are each written at most once:
\* a timestamp that has a value is not changed by any step.
C29_TimestampsWrittenOnce ==
    [][\A id \in 1..Len(tasks) :
          /\ tasks'[id].created_at = tasks[id].created_at
          /\ tasks[id].started_at # 0
                => tasks'[id].started_at = tasks[id].started_at
          /\ tasks[id].ended_at # 0
                => tasks'[id].ended_at = tasks[id].ended_at]_vars

\* C29 happens: a task cancelled while its executor ran holds all three
\* timestamps
C29_Witness ==
    \E id \in 1..Len(tasks) :
        /\ pc[id] = "done"
        /\ tasks[id].error = "Cancelled by user"
        /\ tasks[id].created_at # 0
        /\ tasks[id].started_at # 0
        /\ tasks[id].ended_at # 0

----------------------------------------------------------------------------
(* Claims on the status route, checked under SpecStatus *)

\* C25: every snapshot returned by the status route has an output only
\* when the status in the same snapshot is SUCCEEDED, whatever the stored
\* row holds.
C25_SnapshotOutputOnlyIfSucceeded ==
    (response.op = "get" /\ response.status_code = 200)
        => /\ response.body.status = tasks[response.id].status
           /\ response.body.output # "None"
                 => response.body.status = "SUCCEEDED"

\* C25 happens: the stored row is FAILED and holds an output, and the
\* snapshot has none
C25_Witness ==
    /\ response.op = "get"
    /\ response.status_code = 200
    /\ tasks[response.id].status = "FAILED"
    /\ tasks[response.id].output_urls = "url"
    /\ response.body.output = "None"

----------------------------------------------------------------------------
(* Claims on waiting, checked under SpecConc and SpecConcFair *)

\* the thread has ended, by returning or by raising
Ended(t) == threads[t].pc \in {"done", "raised"}

\* C26: requests for distinct models do not block each other.  While an
\* invocation on model B is in flight, a thread working for another model
\* that has not ended can take its next step, wherever it stands: fetching
\* the pool, inside get, starting its invocation or ending it.
C26_DistinctModelsDoNotBlock ==
    \A t, u \in 1..Len(threads) :
        (/\ InFlight(u)
         /\ threads[t].model_name # threads[u].model_name
         /\ ~Ended(t))
            => ENABLED ThreadStep(t)

\* C26 happens: invocations on two distinct models are in flight together
C26_Witness ==
    \E t, u \in 1..Len(threads) :
        /\ threads[t].model_name # threads[u].model_name
        /\ InFlight(t) /\ InFlight(u)
        /\ threads[t].pipe # threads[u].pipe

\* an invocation on the model of thread t, by another thread, has ended
InvocationEnded(t) ==
    \E u \in 1..Len(threads) :
        /\ u # t
        /\ threads[u].model_name = threads[t].model_name
        /\ threads[u].pipe # <<>>
        /\ Ended(u)

\* C27: nothing is held after an invocation ends.  A thread requesting a
\* model on which an invocation has ended, by return or by raising,
\* eventually starts its own invocation, unless its own get raises.
C27_ReleasedOnEveryExit ==
    \A t \in 1..MaxThreads :
        (t \in 1..Len(threads) /\ ~Ended(t) /\ ~InFlight(t)
           /\ InvocationEnded(t))
        ~> (/\ t \in 1..Len(threads)
            /\ \/ InFlight(t)
               \/ (threads[t].pc = "raised" /\ threads[t].pipe = <<>>))

\* C27 happens: an invocation raised, and a later one on the same model
\* is in flight
C27_Witness ==
    \E t, u \in 1..Len(threads) :
        /\ u # t
        /\ threads[u].model_name = threads[t].model_name
        /\ threads[u].pc = "raised" /\ threads[u].pipe # <<>>
        /\ InFlight(t)

----------------------------------------------------------------------------
(* Claims on what the operations leave alone, checked under Spec *)

\* C31: tasks are never deleted.  No step of submit, cancel or an executor
\* removes a row: every id stored before the step is stored after it, for
\* the same owner, route and model and with the same created_at.
C31_TasksNeverDeleted ==
    [][/\ Len(tasks') >= Len(tasks)
       /\ \A id \in 1..Len(tasks) :
             /\ tasks'[id].api_key_id = tasks[id].api_key_id
             /\ tasks'[id].endpoint = tasks[id].endpoint
             /\ tasks'[id].model = tasks[id].model
             /\ tasks'[id].created_at = tasks[id].created_at]_vars

\* C31 happens: the cancel of a task was answered 204 and its row is there
C31_Witness ==
    /\ response.op = "cancel" /\ response.status_code = 204
    /\ response.id \in 1..Len(tasks)
    /\ tasks[response.id].status = "FAILED"
    /\ tasks[response.id].error = "Cancelled by user"

----------------------------------------------------------------------------
(* Further claims on the pool, checked under SpecPool *)

\* C32: a get on a model with no registered loader fails with the loader
\* lookup's error and leaves the pool as it was: the resident entries, their
\* order and used_vram are those of before the call.
C32_MissingLoaderLeavesPool ==
    (calls # <<>> /\ Last(calls).name \notin Loaders)
        => /\ Last(calls).kind = "ValueError"
           /\ pools[1] = before

\* the entries of a pool other than that of model_name, in their order
Others(p, model_name) ==
    LET i == Entry(p, model_name)
    IN  SubSeq(p.pool, 1, i - 1) \o SubSeq(p.pool, i + 1, Len(p.pool))

\* C33: a cache hit changes only recency.  A get on a resident model returns
\* the stored handle without loading or unloading anything, makes the model
\* the last (most recently used) entry, and leaves the other entries, their
\* relative order and used_vram as they were.
C33_HitChangesOnlyRecency ==
    (calls # <<>> /\ Last(calls).name \in Names(before)) =>
        LET m == Last(calls).name
            now == pools[1]
        IN  /\ Last(calls).kind = "hit"
            /\ Last(calls).handle = before.pool[Entry(before, m)].handle
            /\ Last(calls).loads = 0
            /\ Last(calls).unloaded = <<>>
            /\ Len(now.pool) = Len(before.pool)
            /\ Last(now.pool) = before.pool[Entry(before, m)]
            /\ SubSeq(now.pool, 1, Len(now.pool) - 1) = Others(before, m)
            /\ now.used_vram = before.used_vram

\* C33 happens: a hit on the oldest of two resident models
C33_Witness ==
    /\ calls # <<>>
    /\ Len(before.pool) >= 2
    /\ Head(before.pool).name = Last(calls).name
    /\ Last(calls).kind = "hit"

\* C34: after every get(m) that returned, hit or miss, m is resident and is
\* the most recently used entry, and the eviction of the next get removes m
\* only after every other resident model.
C34_GotModelIsNewest ==
    /\ (calls # <<>> /\ Returned(Last(calls)))
          => /\ pools[1].pool # <<>>
             /\ Last(pools[1].pool).name = Last(calls).name
             /\ Last(pools[1].pool).handle = Last(calls).handle
    /\ (Len(calls) >= 2 /\ Returned(calls[Len(calls) - 1]))
          => LET m == calls[Len(calls) - 1].name
                 gone == Last(calls).unloaded
             IN  /\ before.pool # <<>> /\ Last(before.pool).name = m
                 /\ (\E i \in 1..Len(gone) : gone[i] = m)
                       => /\ Last(gone) = m
                          /\ Len(gone) = Len(before.pool)

\* C34 happens: the get after a get that returned m evicted another model
\* and m stayed
C34_Witness ==
    /\ Len(calls) >= 2
    /\ Returned(calls[Len(calls) - 1])
    /\ Last(calls).unloaded # <<>>
    /\ calls[Len(calls) - 1].name \in Names(pools[1])

\* the get after a get that returned m evicted m, after another model
C34_EvictedLast ==
    /\ Len(calls) >= 2
    /\ Returned(calls[Len(calls) - 1])
    /\ Len(Last(calls).unloaded) >= 2
    /\ Last(Last(calls).unloaded) = calls[Len(calls) - 1].name

\* used_vram after the first i entries of the pool before the call are gone
UsedAfter(i) == before.used_vram - Footprint(SubSeq(before.pool, 1, i))

\* C35: eviction is minimal.  A miss with used + required <= budget evicts
\* nothing, and every entry a miss evicts is evicted while the model does not
\* fit yet: none is evicted once used + required <= budget.
C35_EvictionIsMinimal ==
    (calls # <<>> /\ Last(calls).name \notin Names(before)) =>
        LET needed == _model_vram(Last(calls).name)
            k == Len(Last(calls).unloaded)
        IN  /\ before.used_vram + needed <= available_vram => k = 0
            /\ k <= Len(before.pool)
            /\ \A i \in 0..(k - 1) : UsedAfter(i) + needed > available_vram
            /\ pools[1].used_vram =
                   UsedAfter(k) + (IF Last(calls).kind = "loaded" THEN needed ELSE 0)

\* C35 happens: a miss evicted one of two resident models and kept the other
C35_Witness ==
    /\ calls # <<>>
    /\ Last(calls).kind = "loaded"
    /\ Len(before.pool) = 2
    /\ Len(Last(calls).unloaded) = 1
    /\ Len(pools[1].pool) = 2

Failed(c) == c.kind \in {"ValueError", "LoaderError"}

\* C36: sequential accounting.  After any sequence of get calls made one
\* after another, failed ones included, used_vram is not negative and is the
\* sum of the footprints of the models in the pool, each resident once; after
\* a get that failed the requested model is not resident.
C36_UsedIsResidentFootprint ==
    /\ pools[1].used_vram >= 0
    /\ pools[1].used_vram = Footprint(pools[1].pool)
    /\ Cardinality(Names(pools[1])) = Len(pools[1].pool)
    /\ (calls # <<>> /\ Failed(Last(calls)))
          => Last(calls).name \notin Names(pools[1])

\* C36 happens: a get evicted a model, then failed, and a model is resident
C36_Witness ==
    /\ calls # <<>>
    /\ Failed(Last(calls))
    /\ Last(calls).unloaded # <<>>
    /\ pools[1].pool # <<>>

----------------------------------------------------------------------------
(* Claims on the end of an executor run, checked under SpecExecFair *)

\* C37: every task for which an executor run was started eventually reaches
\* SUCCEEDED or FAILED, when the backend call, the storage write and the
\* database updates each return or raise: the run comes to its end, and it
\* does not end leaving the task RUNNING.
C37_StartedRunTerminates ==
    \A id \in 1..MaxTasks :
        (id \in 1..Len(pc) /\ pc[id] = "start")
            ~> (/\ id \in 1..Len(pc)
                /\ pc[id] = "done"
                /\ tasks[id].status \in Terminal)

----------------------------------------------------------------------------
(* Claims on ownership, checked under SpecOwner *)

\* C38: getStatus and cancel act only on tasks owned by the calling key.
\* For a task owned by another key (or no task at all) both answer 404, and
\* the cancel neither changes the row nor goes on to write; a row changes
\* only by the write of a cancel its owner asked for.
C38_OnlyOwnerActs ==
    [][/\ \A api_key \in Keys, id \in 1..(Len(tasks) + 1) :
             ( /\ id \in 1..Len(tasks) => tasks[id].api_key_id # api_key
               /\ GetTask(api_key, id) \/ CancelRead(api_key, id) )
                 => /\ response'.status_code = 404
                    /\ tasks' = tasks
                    /\ cancelling' = cancelling
       /\ \A id \in 1..Len(tasks) :
             tasks'[id] # tasks[id] => id \in cancelling]_vars

\* C38 happens: the cancel of a PENDING task by a key that does not own it
\* was answered 404
C38_Witness ==
    /\ response.op = "cancel" /\ response.status_code = 404
    /\ response.id \in 1..Len(tasks)
    /\ tasks[response.id].status = "PENDING"
    /\ response.id \notin cancelling

----------------------------------------------------------------------------
(* A further claim on concurrent executors, checked under SpecConc *)

\* C40: get_pool is a per-process singleton under concurrency.  However
\* many threads make their first get_pool call at the same time, one
\* ModelPool is constructed and every caller receives that pool.
C40_GetPoolIsSingleton ==
    /\ Len(pools) <= 1
    /\ \A t, u \in 1..Len(threads) :
          (threads[t].pool # 0 /\ threads[u].pool # 0)
              => threads[t].pool = threads[u].pool

====
